---------------------------- MODULE Spec2Model ----------------------------
(***************************************************************************)
(* Model of lyscripts.predict: the prevalence and risk prediction scripts. *)
(*                                                                         *)
(*   src/lyscripts/predict/prevalences.py                                  *)
(*   src/lyscripts/predict/risks.py                                        *)
(*                                                                         *)
(* Floating point values are modelled as exact fractions <<n, d>>.  A      *)
(* denominator of 0 stands for the values numpy produces on a division by  *)
(* zero: <<1, 0>> is +inf, <<-1, 0>> is -inf and <<0, 0>> is nan.  Rounding *)
(* is not modelled.                                                        *)
(***************************************************************************)
EXTENDS Integers, Sequences, FiniteSets, TLC

VARIABLES
    pc,         \* position of the running function or script
    args,       \* arguments of the function, or inputs of the script
    ret,        \* what the function returned (None before it returns)
    model,      \* main: the model shared by all scenarios
    i,          \* main: index of the scenario at hand (enumerate)
    gen,        \* main: the generator prevs_gen / risks_gen
    prevs_arr,  \* main: the values taken from the generator so far
    locals,     \* main: prevs_h5dset, num_match and num_total of the scenario
    storage     \* main: the datasets of the HDF5 output file

vars == <<pc, args, ret, model, i, gen, prevs_arr, locals, storage>>

runvars == <<model, i, gen, prevs_arr, locals, storage>>

None == "None"

\* the script is not running: a single function is evaluated
RunIdle ==
    /\ model = None
    /\ i = 0
    /\ gen = None
    /\ prevs_arr = <<>>
    /\ locals = None
    /\ storage = <<>>

(***************************************************************************)
(* Floating point arithmetic, as fractions.                                *)
(***************************************************************************)
Abs(n) == IF n < 0 THEN -n ELSE n

Sign(n) == IF n < 0 THEN -1 ELSE IF n = 0 THEN 0 ELSE 1

RECURSIVE Gcd(_, _)
Gcd(a, b) == IF b = 0 THEN a ELSE Gcd(b, a % b)

\* the canonical form of the fraction n/d
Frac(n, d) ==
    IF d = 0 THEN <<Sign(n), 0>>
    ELSE LET g == Gcd(Abs(n), Abs(d))
         IN  <<(Sign(d) * n) \div g, Abs(d) \div g>>

Zero == Frac(0, 1)

One == Frac(1, 1)

FAdd(x, y) ==
    IF x[2] = 0 /\ y[2] = 0
    THEN (IF x = y THEN x ELSE <<0, 0>>)
    ELSE Frac(x[1] * y[2] + y[1] * x[2], x[2] * y[2])

FNeg(x) == <<-x[1], x[2]>>

FSub(x, y) == FAdd(x, FNeg(y))

FMul(x, y) == Frac(x[1] * y[1], x[2] * y[2])

\* numpy's true division: x/0 is inf, -inf or nan, never an exception
FDiv(x, y) ==
    IF x = <<0, 0>> \/ y = <<0, 0>> THEN <<0, 0>>
    ELSE IF y[2] = 0 THEN (IF x[2] = 0 THEN <<0, 0>> ELSE Zero)
    ELSE IF y[1] = 0 THEN <<Sign(x[1]), 0>>
    ELSE Frac(x[1] * y[2] * Sign(y[1]), x[2] * Abs(y[1]))

IsFinite(x) == x[2] # 0

(***************************************************************************)
(* calculate_midline_ext_prob (prevalences.py 161-174).  Sequences are     *)
(* 1-based here: time step t of the code is index t + 1.                   *)
(***************************************************************************)

\* mutation: the inner loop also covers the diagnosis step itself
RECURSIVE not_extended_through(_, _)
not_extended_through(midline_ext_prob_rates, diagnosis_timestep) ==
    IF diagnosis_timestep = 0 THEN FSub(One, midline_ext_prob_rates[1])
    ELSE FMul(not_extended_through(midline_ext_prob_rates, diagnosis_timestep - 1),
              FSub(One, midline_ext_prob_rates[diagnosis_timestep + 1]))

\* the inner loop (168-169): product of (1 - rate[t]) for t in range(diagnosis_timestep)
RECURSIVE not_extended_until(_, _)
not_extended_until(midline_ext_prob_rates, diagnosis_timestep) ==
    IF diagnosis_timestep = 0 THEN One
    ELSE FMul(not_extended_until(midline_ext_prob_rates, diagnosis_timestep - 1),
              FSub(One, midline_ext_prob_rates[diagnosis_timestep]))

\* lines 166-171 for one diagnosis time step
cumulative_probability_at_diagnosis(diag_prob, midline_ext_prob_rates, diagnosis_timestep) ==
    FMul(not_extended_until(midline_ext_prob_rates, diagnosis_timestep),
         diag_prob[diagnosis_timestep + 1])

\* the outer loop (165-172) over range(num_timesteps)
RECURSIVE cumulative_probability(_, _, _)
cumulative_probability(diag_prob, midline_ext_prob_rates, num_timesteps) ==
    IF num_timesteps = 0 THEN Zero
    ELSE FAdd(cumulative_probability(diag_prob, midline_ext_prob_rates, num_timesteps - 1),
              cumulative_probability_at_diagnosis(diag_prob, midline_ext_prob_rates,
                                                  num_timesteps - 1))

\* mutation: the complement is forgotten on return
calculate_midline_ext_prob_not_complemented(diag_prob, midline_ext_prob_rates) ==
    cumulative_probability(diag_prob, midline_ext_prob_rates, Len(diag_prob))

calculate_midline_ext_prob(diag_prob, midline_ext_prob_rates) ==
    FSub(One, cumulative_probability(diag_prob, midline_ext_prob_rates, Len(diag_prob)))

(***************************************************************************)
(* The clinical table.  A table has 2 header rows (unilateral) or 3        *)
(* (bilateral).  A row is a record                                         *)
(*   [t_stage, diag]                        with diag[lnl]        (2 rows) *)
(*   [t_stage, midline_extension, diag]     with diag[side][lnl]  (3 rows) *)
(* where diag holds the chosen modality's columns: TRUE, FALSE or NaN.     *)
(* A pandas Series is a sequence with one entry per row.                   *)
(***************************************************************************)
True == "True"

False == "False"

NaN == "NaN"

LNLS == <<"II", "III">>

SIDES == <<"ipsi", "contra">>

Range(s) == { s[k] : k \in DOMAIN s }

\* a boolean mask is a Python bool or a boolean Series
Scalar(b) == [kind |-> "bool", val |-> b]

Series(s) == [kind |-> "Series", val |-> s]

IsSeries(x) == x.kind = "Series"

\* Series == scalar and Series != scalar: NaN equals nothing
SeriesEq(column, value) == Series([k \in DOMAIN column |-> column[k] = value])

SeriesNe(column, value) == Series([k \in DOMAIN column |-> column[k] # value])

\* a & b and a | b, where either side may be a Python bool or a Series
MaskAnd(a, b) ==
    IF IsSeries(a) /\ IsSeries(b)
    THEN Series([k \in DOMAIN a.val |-> a.val[k] /\ b.val[k]])
    ELSE IF IsSeries(a) THEN Series([k \in DOMAIN a.val |-> a.val[k] /\ b.val])
    ELSE IF IsSeries(b) THEN Series([k \in DOMAIN b.val |-> a.val /\ b.val[k]])
    ELSE Scalar(a.val /\ b.val)

MaskOr(a, b) ==
    IF IsSeries(a) /\ IsSeries(b)
    THEN Series([k \in DOMAIN a.val |-> a.val[k] \/ b.val[k]])
    ELSE IF IsSeries(a) THEN Series([k \in DOMAIN a.val |-> a.val[k] \/ b.val])
    ELSE IF IsSeries(b) THEN Series([k \in DOMAIN b.val |-> a.val \/ b.val[k]])
    ELSE Scalar(a.val \/ b.val)

\* frame[lnl]: the column of one lymph node level
Column(frame, lnl) == [k \in DOMAIN frame |-> frame[k][lnl]]

\* complete_pattern (lyscripts/predict/utils.py): every side and every level
\* is present afterwards, None where the pattern gave nothing
complete_pattern(pattern, lnls) ==
    [side \in Range(SIDES) |->
        [lnl \in Range(lnls) |->
            IF side \in DOMAIN pattern /\ lnl \in DOMAIN pattern[side]
            THEN pattern[side][lnl]
            ELSE None]]

\* mutation: the inverted branch accumulates with &= like the normal one
RECURSIVE get_match_idx_inverted_and(_, _, _, _, _)
get_match_idx_inverted_and(match_idx, pattern, data, lnls, invert) ==
    IF lnls = <<>> THEN match_idx
    ELSE LET lnl == Head(lnls)
             next == IF lnl \notin DOMAIN pattern \/ pattern[lnl] = None
                     THEN match_idx
                     ELSE IF invert
                     THEN MaskAnd(match_idx, SeriesNe(Column(data, lnl), pattern[lnl]))
                     ELSE MaskAnd(match_idx, SeriesEq(Column(data, lnl), pattern[lnl]))
         IN  get_match_idx_inverted_and(next, pattern, data, Tail(lnls), invert)

\* mutation: the inverted branch tests equality instead of inequality
RECURSIVE get_match_idx_inverted_eq(_, _, _, _, _)
get_match_idx_inverted_eq(match_idx, pattern, data, lnls, invert) ==
    IF lnls = <<>> THEN match_idx
    ELSE LET lnl == Head(lnls)
             next == IF lnl \notin DOMAIN pattern \/ pattern[lnl] = None
                     THEN match_idx
                     ELSE IF invert
                     THEN MaskOr(match_idx, SeriesEq(Column(data, lnl), pattern[lnl]))
                     ELSE MaskAnd(match_idx, SeriesEq(Column(data, lnl), pattern[lnl]))
         IN  get_match_idx_inverted_eq(next, pattern, data, Tail(lnls), invert)

\* get_match_idx (84-112): the loop over lnls
RECURSIVE get_match_idx(_, _, _, _, _)
get_match_idx(match_idx, pattern, data, lnls, invert) ==
    IF lnls = <<>> THEN match_idx
    ELSE LET lnl == Head(lnls)
             next == IF lnl \notin DOMAIN pattern \/ pattern[lnl] = None
                     THEN match_idx
                     ELSE IF invert
                     THEN MaskOr(match_idx, SeriesNe(Column(data, lnl), pattern[lnl]))
                     ELSE MaskAnd(match_idx, SeriesEq(Column(data, lnl), pattern[lnl]))
         IN  get_match_idx(next, pattern, data, Tail(lnls), invert)

\* does_t_stage_match (115-129); the two depths differ only in the column key
does_t_stage_match(data, t_stage) ==
    IF data.nlevels \in {2, 3}
    THEN IF t_stage = "early/late"
         THEN Series([k \in DOMAIN data.rows |->
                         data.rows[k].t_stage \in {"early", "late"}])
         ELSE Series([k \in DOMAIN data.rows |-> data.rows[k].t_stage = t_stage])
    ELSE [kind |-> "ValueError"]

\* does_midline_ext_match (132-147)
does_midline_ext_match(data, midline_ext) ==
    IF midline_ext = None \/ data.nlevels = 2 THEN Scalar(TRUE)
    ELSE IF data.has_midline
    THEN Series([k \in DOMAIN data.rows |->
                    data.rows[k].midline_extension = midline_ext])
    ELSE [kind |-> "KeyError"]

\* the sub-sequence of the entries whose mask entry is set
RECURSIVE Compress(_, _)
Compress(seq, keep) ==
    IF seq = <<>> THEN <<>>
    ELSE (IF Head(keep) THEN <<Head(seq)>> ELSE <<>>) \o Compress(Tail(seq), Tail(keep))

\* the tables hold the columns of one modality, the default of
\* compute_observed_prevalence (255); .loc[mask, modality] of any other
\* modality is a KeyError
TableModality == "max_llh"

\* DataFrame.loc[mask, modality]: the modality's columns of the selected rows
LocModality(data, mask) ==
    Compress([k \in DOMAIN data.rows |-> data.rows[k].diag], mask.val)

\* dropna(axis="index", how="all"): drop the rows whose every column is NaN
AllNaN(nlevels, diag) ==
    IF nlevels = 2
    THEN \A lnl \in DOMAIN diag : diag[lnl] = NaN
    ELSE \A side \in DOMAIN diag : \A lnl \in DOMAIN diag[side] : diag[side][lnl] = NaN

\* mutation: how="any", a row with one missing column is dropped too
DropNaAny(nlevels, frame) ==
    SelectSeq(frame, LAMBDA diag :
        IF nlevels = 2
        THEN \A lnl \in DOMAIN diag : diag[lnl] # NaN
        ELSE \A side \in DOMAIN diag : \A lnl \in DOMAIN diag[side] :
                 diag[side][lnl] # NaN)

DropNa(nlevels, frame) == SelectSeq(frame, LAMBDA diag : ~AllNaN(nlevels, diag))

\* frame[side] of a bilateral frame
SideOf(frame, side) == [k \in DOMAIN frame |-> frame[k][side]]

\* lines 291-298: the loop over the two sides
RECURSIVE match_sides(_, _, _, _, _, _)
match_sides(do_lnls_match, pattern, eligible_data, lnls, invert, sides) ==
    IF sides = <<>> THEN do_lnls_match
    ELSE match_sides(get_match_idx(do_lnls_match, pattern[Head(sides)],
                                   SideOf(eligible_data, Head(sides)), lnls, invert),
                     pattern, eligible_data, lnls, invert, Tail(sides))

\* lines 281-298: the mask, on the ipsi pattern alone or over both sides
lnls_mask(pattern, data, eligible_data, lnls, invert) ==
    IF data.nlevels = 2
    THEN get_match_idx(Scalar(~invert), pattern["ipsi"], eligible_data, lnls, invert)
    ELSE match_sides(Scalar(~invert), pattern, eligible_data, lnls, invert, SIDES)

\* mutation: the fallback of the except branch ignores invert
observed_counts_fallback_all(eligible_data, do_lnls_match, invert) ==
    IF IsSeries(do_lnls_match)
    THEN <<Len(Compress(eligible_data, do_lnls_match.val)), Len(eligible_data)>>
    ELSE <<Len(eligible_data), Len(eligible_data)>>

\* lines 300-307: .loc[mask] raises KeyError for a mask that is a plain bool
observed_counts(eligible_data, do_lnls_match, invert) ==
    IF IsSeries(do_lnls_match)
    THEN <<Len(Compress(eligible_data, do_lnls_match.val)), Len(eligible_data)>>
    ELSE <<IF invert THEN 0 ELSE Len(eligible_data), Len(eligible_data)>>

\* compute_observed_prevalence (251-307); the scenario gives pattern, t_stage,
\* midline_ext and invert.  The result also shows the locals the returned
\* counts are computed from.
compute_observed_prevalence(pattern, data, lnls, t_stage, modality, midline_ext, invert) ==
    LET completed == complete_pattern(pattern, lnls)
        has_matching_t_stage == does_t_stage_match(data, t_stage)
        has_matching_midline_ext == does_midline_ext_match(data, midline_ext)
    IN  IF has_matching_t_stage.kind = "ValueError" THEN [raised |-> "ValueError"]
        ELSE IF has_matching_midline_ext.kind = "KeyError" THEN [raised |-> "KeyError"]
        ELSE IF modality # TableModality THEN [raised |-> "KeyError"]
        ELSE LET eligible_data ==
                     DropNa(data.nlevels,
                            LocModality(data, MaskAnd(has_matching_t_stage,
                                                      has_matching_midline_ext)))
                 do_lnls_match == lnls_mask(completed, data, eligible_data, lnls, invert)
             IN  [raised |-> None,
                  value |-> observed_counts(eligible_data, do_lnls_match, invert),
                  eligible_data |-> eligible_data,
                  do_lnls_match |-> do_lnls_match]

(***************************************************************************)
(* The progression model (the lymph package) is an external collaborator.  *)
(* A model is a record [kind, lnls, modalities, patient_data,              *)
(* diag_time_dists]; diag_time_dists stands for                            *)
(* model.ext.ipsi.diag_time_dists[stage].pmf, which only a MidlineBilateral *)
(* model has.  A parameter vector is abstracted by what the model answers  *)
(* for it: given_params.llh[t_stage][midline_extension] is the likelihood  *)
(* of one loaded patient row of that stage and midline extension,          *)
(* given_params.risk[t_stage][midline_extension] the risk, and             *)
(* given_params.rate is given_params[-2].                                  *)
(***************************************************************************)
Absent == "absent"

\* the argument t_stages left out, and a scenario without modality_spsn
AllStages == <<>>

NoSpsn == <<>>

Kinds == {"Unilateral", "Bilateral", "MidlineBilateral"}

\* a model object of none of the three classes
OtherKind == "Other"

\* the outcome of a call: an exception, or a returned value
Raised(error) == [raised |-> error]

Returns(value) == [raised |-> None, value |-> value]

\* get_lnls(model) of lyscripts.utils: the names of the model's lymph node
\* levels, found where each of the three classes keeps them; a model of no
\* recognized class is a TypeError
get_lnls(a_model) ==
    IF a_model.kind \in Kinds THEN Returns(a_model.lnls) ELSE Raised("TypeError")

\* create_patient_row (184-248); a unilateral row has no midline column
PatientRow(prev, t_stage, midline_extension) ==
    [prev |-> prev, t_stage |-> t_stage, midline_extension |-> midline_extension]

create_patient_row(pattern, t_stage, midline_ext, make_unilateral) ==
    IF make_unilateral
    THEN IF t_stage # "early/late"
         THEN <<PatientRow(pattern["ipsi"], t_stage, Absent)>>
         ELSE <<PatientRow(pattern["ipsi"], "early", Absent),
                PatientRow(pattern["ipsi"], "late", Absent)>>
    ELSE IF t_stage # "early/late"
    THEN IF midline_ext # None
         THEN <<PatientRow(pattern, t_stage, midline_ext)>>
         ELSE <<PatientRow(pattern, t_stage, True),
                PatientRow(pattern, t_stage, False)>>
    ELSE IF midline_ext # None
         THEN <<PatientRow(pattern, "early", midline_ext),
                PatientRow(pattern, "late", midline_ext)>>
         ELSE <<PatientRow(pattern, "early", True),
                PatientRow(pattern, "late", True),
                PatientRow(pattern, "early", False),
                PatientRow(pattern, "late", False)>>

\* mutation: the modalities are set only when the scenario gives a
\* modality_spsn
setup_prevalence_model_keeps_spsn(a_model, pattern, t_stage, midline_ext, modality_spsn) ==
    [a_model EXCEPT
        !.modalities = IF modality_spsn = NoSpsn THEN a_model.modalities
                       ELSE [prev |-> modality_spsn],
        !.patient_data = create_patient_row(
                             complete_pattern(pattern, get_lnls(a_model).value),
                             t_stage, midline_ext, a_model.kind = "Unilateral")]

\* lines 447-459 of generate_predicted_prevalences: the model is set up for
\* the scenario
setup_prevalence_model(a_model, pattern, t_stage, midline_ext, modality_spsn) ==
    LET lnls == get_lnls(a_model).value
        completed == complete_pattern(pattern, lnls)
        is_unilateral == a_model.kind = "Unilateral"
    IN  [a_model EXCEPT
            !.modalities = [prev |-> IF modality_spsn = NoSpsn THEN <<One, One>>
                                     ELSE modality_spsn],
            !.patient_data = create_patient_row(completed, t_stage, midline_ext,
                                                is_unilateral)]

RECURSIVE Product(_)
Product(s) == IF s = <<>> THEN One ELSE FMul(Head(s), Product(Tail(s)))

\* model.likelihood(given_params, log=False, t_stages, prevalence_calc): the
\* loaded rows of the stages asked for (all when t_stages is left out); with
\* prevalence_calc one value per row (a float for one row), otherwise the
\* likelihood of the rows together
likelihood(loaded_model, given_params, t_stages, prevalence_calc) ==
    LET rows == IF t_stages = AllStages THEN loaded_model.patient_data
                ELSE SelectSeq(loaded_model.patient_data,
                               LAMBDA r : r.t_stage \in Range(t_stages))
        llhs == [k \in DOMAIN rows |->
                    given_params.llh[rows[k].t_stage][rows[k].midline_extension]]
    IN  IF prevalence_calc
        THEN (IF Len(llhs) = 1 THEN llhs[1] ELSE llhs)
        ELSE Product(llhs)

\* [given_params[-2]] * len(pmf)
ConstantRates(given_params, pmf) == [t \in DOMAIN pmf |-> given_params.rate]

\* mutation: the late term is weighted with early_prob too
blend_stages_same_weight(early_prob, early_value, late_value) ==
    FAdd(FMul(early_prob, early_value), FMul(early_prob, late_value))

\* early_prob * x + (1 - early_prob) * y (357-370, 387-400, 409-415)
blend_stages(early_prob, early_value, late_value) ==
    FAdd(FMul(early_prob, early_value), FMul(FSub(One, early_prob), late_value))

\* compute_predicted_prevalence (310-421)
compute_predicted_prevalence(loaded_model, given_params, midline_ext, t_stage, midline_ext_prob, early_prob) ==
    IF loaded_model.kind = "MidlineBilateral"
    THEN IF midline_ext = None
         THEN IF t_stage = "early/late"
              THEN LET early_llhs == likelihood(loaded_model, given_params, <<"early">>, TRUE)
                       late_llhs == likelihood(loaded_model, given_params, <<"late">>, TRUE)
                   IN  FAdd(FAdd(FAdd(FMul(early_prob, early_llhs[1]),
                                      FMul(early_prob, early_llhs[2])),
                                 FMul(FSub(One, early_prob), late_llhs[1])),
                            FMul(FSub(One, early_prob), late_llhs[2]))
              ELSE LET llhs == likelihood(loaded_model, given_params, AllStages, TRUE)
                   IN  FAdd(llhs[1], llhs[2])
         ELSE IF midline_ext = True
         THEN IF t_stage = "early/late"
              THEN LET midline_ext_prob_early ==
                           calculate_midline_ext_prob(
                               loaded_model.diag_time_dists["early"],
                               ConstantRates(given_params,
                                             loaded_model.diag_time_dists["early"]))
                       midline_ext_prob_late ==
                           calculate_midline_ext_prob(
                               loaded_model.diag_time_dists["late"],
                               ConstantRates(given_params,
                                             loaded_model.diag_time_dists["late"]))
                   IN  blend_stages(early_prob,
                           FDiv(likelihood(loaded_model, given_params, <<"early">>, TRUE),
                                midline_ext_prob_early),
                           FDiv(likelihood(loaded_model, given_params, <<"late">>, TRUE),
                                midline_ext_prob_late))
              ELSE LET midline_ext_prob_stage ==
                           calculate_midline_ext_prob(
                               loaded_model.diag_time_dists[t_stage],
                               ConstantRates(given_params,
                                             loaded_model.diag_time_dists[t_stage]))
                   IN  FDiv(likelihood(loaded_model, given_params, AllStages, TRUE),
                            midline_ext_prob_stage)
         ELSE IF t_stage = "early/late"
              THEN LET midline_ext_prob_early ==
                           calculate_midline_ext_prob(
                               loaded_model.diag_time_dists["early"],
                               ConstantRates(given_params,
                                             loaded_model.diag_time_dists["early"]))
                       midline_ext_prob_late ==
                           calculate_midline_ext_prob(
                               loaded_model.diag_time_dists["late"],
                               ConstantRates(given_params,
                                             loaded_model.diag_time_dists["late"]))
                   IN  blend_stages(early_prob,
                           FDiv(likelihood(loaded_model, given_params, <<"early">>, TRUE),
                                FSub(One, midline_ext_prob_early)),
                           FDiv(likelihood(loaded_model, given_params, <<"late">>, TRUE),
                                FSub(One, midline_ext_prob_late)))
              ELSE LET midline_ext_prob_stage ==
                           calculate_midline_ext_prob(
                               loaded_model.diag_time_dists[t_stage],
                               ConstantRates(given_params,
                                             loaded_model.diag_time_dists[t_stage]))
                   IN  FDiv(likelihood(loaded_model, given_params, AllStages, TRUE),
                            FSub(One, midline_ext_prob_stage))
    ELSE IF t_stage = "early/late"
         THEN blend_stages(early_prob,
                  likelihood(loaded_model, given_params, <<"early">>, FALSE),
                  likelihood(loaded_model, given_params, <<"late">>, FALSE))
         ELSE likelihood(loaded_model, given_params, AllStages, FALSE)

(***************************************************************************)
(* Inputs of calculate_midline_ext_prob: a diagnosis time distribution     *)
(* over at most MaxTime time steps whose entries are multiples of          *)
(* 1/PmfUnit and sum to 1, and one rate per time step, a multiple of       *)
(* 1/RateUnit in [0, 1].                                                   *)
(***************************************************************************)
MaxTime == 3

PmfUnit == 4

RateUnit == 2

RECURSIVE SumNat(_)
SumNat(s) == IF s = <<>> THEN 0 ELSE Head(s) + SumNat(Tail(s))

PmfsOf(T, unit) == { [t \in 1..T |-> Frac(w[t], unit)] :
                     w \in { v \in [1..T -> 0..unit] : SumNat(v) = unit } }

Pmfs(T) == PmfsOf(T, PmfUnit)

Rates == { Frac(k, RateUnit) : k \in 0..RateUnit }

InitMid ==
    /\ pc = "call"
    /\ RunIdle
    /\ \E T \in 1..MaxTime : \E p \in Pmfs(T) : \E r \in [1..T -> Rates] :
           args = [diag_prob |-> p, midline_ext_prob_rates |-> r]
    /\ ret = None

CallMidlineExtProb ==
    /\ pc = "call"
    /\ ret' = calculate_midline_ext_prob(args.diag_prob, args.midline_ext_prob_rates)
    /\ pc' = "ret"
    /\ UNCHANGED <<args, runvars>>

NextMid == CallMidlineExtProb

SpecMid == InitMid /\ [][NextMid]_vars

MassAtStepZero == args.diag_prob[1] = One

AllRatesZero == \A t \in DOMAIN args.midline_ext_prob_rates :
                   args.midline_ext_prob_rates[t] = Zero

\* C5 as stated: with all the mass of the diagnosis time distribution at
\* time step 0, the result is the rate of time step 0.
C5_AsStated ==
    (pc = "ret" /\ MassAtStepZero) => ret = args.midline_ext_prob_rates[1]

\* C5, amended: with all the mass of the diagnosis time distribution at time
\* step 0, the result is 0 whatever the rates are (no time step precedes the
\* diagnosis, so the product over the earlier steps is empty).
C5_MassAtStepZeroGivesZero ==
    (pc = "ret" /\ MassAtStepZero) => ret = Zero

C5_Witness ==
    /\ pc = "ret"
    /\ MassAtStepZero
    /\ Len(args.diag_prob) > 1
    /\ args.midline_ext_prob_rates[1] # Zero

\* C6: when every per-step rate is 0 the result is 0, for every diagnosis
\* time distribution (entries >= 0 that sum to 1), zero entries included.
C6_ZeroRatesGiveZero ==
    (pc = "ret" /\ AllRatesZero) => ret = Zero

C6_Witness ==
    /\ pc = "ret"
    /\ AllRatesZero
    /\ Len(args.diag_prob) > 1
    /\ \E t \in DOMAIN args.diag_prob : args.diag_prob[t] = Zero
    /\ \E t \in DOMAIN args.diag_prob : args.diag_prob[t] \notin {Zero, One}

(***************************************************************************)
(* Inputs of compute_observed_prevalence: a table and a scenario.  A       *)
(* unilateral table has at most MaxRows rows and is matched on the levels  *)
(* II and III; a bilateral table has at most MaxRowsBilateral rows and is  *)
(* matched on level II of both sides.  A pattern names a level with True   *)
(* or False or leaves it out.  The rows hold the columns of the scenario's *)
(* modality only.                                                          *)
(***************************************************************************)
MaxRows == 2

MaxRowsBilateral == 1

DiagVals == {True, False, NaN}

RowStages == {"early", "late"}

TStages == {"early", "late", "early/late"}

TriState == {True, False, None}

LnlsOf(nlevels) == IF nlevels = 2 THEN LNLS ELSE <<"II">>

RowsOf(nlevels) ==
    IF nlevels = 2
    THEN [t_stage : RowStages, diag : [Range(LnlsOf(2)) -> DiagVals]]
    ELSE [t_stage : RowStages, midline_extension : {True, False},
          diag : [Range(SIDES) -> [Range(LnlsOf(3)) -> DiagVals]]]

TablesOf(nlevels) ==
    { [nlevels |-> nlevels, has_midline |-> nlevels = 3, rows |-> r] :
        r \in UNION { [1..n -> RowsOf(nlevels)] :
                        n \in 0..(IF nlevels = 2 THEN MaxRows ELSE MaxRowsBilateral) } }

\* the partial patterns of one side: some levels named with True or False
SidePatterns(lnls) ==
    UNION { [named -> {True, False}] : named \in SUBSET Range(lnls) }

PatternsOf(nlevels) ==
    IF nlevels = 2
    THEN { [ipsi |-> p] : p \in SidePatterns(LnlsOf(2)) }
    ELSE [ipsi : SidePatterns(LnlsOf(3)), contra : SidePatterns(LnlsOf(3))]

\* a unilateral table has no midline column to filter on: None and True
\* cover both ways does_midline_ext_match leaves it unfiltered
MidlineExtsOf(nlevels) == IF nlevels = 2 THEN {None, True} ELSE TriState

InitObs ==
    /\ pc = "call"
    /\ RunIdle
    /\ \E nlevels \in {2, 3} :
       \E data \in TablesOf(nlevels) :
       \E pattern \in PatternsOf(nlevels) :
       \E t_stage \in TStages :
       \E midline_ext \in MidlineExtsOf(nlevels) :
       \E invert \in BOOLEAN :
           args = [pattern |-> pattern, data |-> data, lnls |-> LnlsOf(nlevels),
                   t_stage |-> t_stage, midline_ext |-> midline_ext,
                   invert |-> invert]
    /\ ret = None

CallObservedPrevalence ==
    /\ pc = "call"
    /\ ret' = compute_observed_prevalence(args.pattern, args.data, args.lnls,
                                          args.t_stage, TableModality, args.midline_ext,
                                          args.invert)
    /\ pc' = "ret"
    /\ UNCHANGED <<args, runvars>>

NextObs == CallObservedPrevalence

SpecObs == InitObs /\ [][NextObs]_vars

(***************************************************************************)
(* What the claims say of compute_observed_prevalence, stated on the       *)
(* table and the pattern as given, with sets and quantifiers.              *)
(***************************************************************************)
SidesUsed == IF args.data.nlevels = 2 THEN {"ipsi"} ELSE Range(SIDES)

\* the (side, level) pairs the pattern constrains: requested, named, not Unknown
Constrained ==
    { c \in SidesUsed \X Range(args.lnls) :
        /\ c[1] \in DOMAIN args.pattern
        /\ c[2] \in DOMAIN args.pattern[c[1]]
        /\ args.pattern[c[1]][c[2]] # None }

CellOf(diag, c) == IF args.data.nlevels = 2 THEN diag[c[2]] ELSE diag[c[1]][c[2]]

\* the row predicate of the claim for one row of diagnoses
RowPredicate(diag, invert) ==
    IF invert
    THEN \E c \in Constrained : CellOf(diag, c) # args.pattern[c[1]][c[2]]
    ELSE \A c \in Constrained : CellOf(diag, c) = args.pattern[c[1]][c[2]]

HasUsableData(diag) == \E c \in SidesUsed \X Range(args.lnls) : CellOf(diag, c) # NaN

PassesStage(row) ==
    IF args.t_stage = "early/late" THEN row.t_stage \in {"early", "late"}
    ELSE row.t_stage = args.t_stage

PassesMidline(row) ==
    \/ args.midline_ext = None
    \/ args.data.nlevels = 2
    \/ row.midline_extension = args.midline_ext

Eligible == { k \in DOMAIN args.data.rows :
                /\ PassesStage(args.data.rows[k])
                /\ PassesMidline(args.data.rows[k])
                /\ HasUsableData(args.data.rows[k].diag) }

Matched == { k \in Eligible : RowPredicate(args.data.rows[k].diag, args.invert) }

Returned == pc = "ret" /\ ret.raised = None

MaskAt(mask, k) == IF IsSeries(mask) THEN mask.val[k] ELSE mask.val

\* C1: the mask constrains only the requested levels that the pattern names
\* and that are not Unknown.  In normal mode it is, for every eligible row,
\* the AND over those levels of (row value = pattern value), true where
\* there is none; in inverted mode the OR of (row value # pattern value),
\* false where there is none.  With no such level the start value is
\* returned as it was passed in.
C1_MaskIsAndOrOverConstrainedLevels ==
    Returned =>
        /\ \A k \in DOMAIN ret.eligible_data :
              MaskAt(ret.do_lnls_match, k) = RowPredicate(ret.eligible_data[k], args.invert)
        /\ IF Constrained = {}
           THEN ret.do_lnls_match = Scalar(~args.invert)
           ELSE /\ IsSeries(ret.do_lnls_match)
                /\ Len(ret.do_lnls_match.val) = Len(ret.eligible_data)

C1_Witness ==
    /\ Returned
    /\ args.invert
    /\ Cardinality(Constrained) = 1
    /\ \E c \in SidesUsed \X Range(args.lnls) : c \notin Constrained
    /\ Len(ret.eligible_data) = 2
    /\ IsSeries(ret.do_lnls_match)
    /\ ret.do_lnls_match.val = <<TRUE, FALSE>>

\* C2: the counts returned are (matched, eligible): eligible counts the
\* rows that pass the stage selector and the midline selector and have a
\* non-missing value under the modality, matched counts the eligible rows
\* that satisfy the pattern predicate (ipsi only in a 2-level table, both
\* sides in a 3-level table).  With t_stage "early" and no midline filter,
\* eligible counts the early-stage rows with usable data.
C2_CountsAreMatchedAndEligible ==
    Returned =>
        /\ ret.value[2] = Cardinality(Eligible)
        /\ ret.value[1] = Cardinality(Matched)
        /\ (args.t_stage = "early" /\ args.midline_ext = None) =>
              ret.value[2] = Cardinality({ k \in DOMAIN args.data.rows :
                                 /\ args.data.rows[k].t_stage = "early"
                                 /\ HasUsableData(args.data.rows[k].diag) })

C2_Witness ==
    /\ Returned
    /\ args.t_stage = "early"
    /\ args.midline_ext = None
    /\ Len(args.data.rows) = 2
    /\ Constrained # {}
    /\ ret.value = <<0, 1>>
    /\ \E k \in DOMAIN args.data.rows :
          /\ args.data.rows[k].t_stage = "early"
          /\ ~HasUsableData(args.data.rows[k].diag)

\* a second case of C2: a bilateral table filtered on the midline column
C2_WitnessBilateral ==
    /\ Returned
    /\ args.data.nlevels = 3
    /\ args.midline_ext = True
    /\ Cardinality(Constrained) = 2
    /\ ret.value = <<1, 1>>

\* C3: when no level is constrained on any side the call does not fail and
\* returns (eligible, eligible) in normal mode and (0, eligible) in inverted
\* mode, also for a table with no eligible row.
C3_NoConstraintCounts ==
    (pc = "ret" /\ Constrained = {}) =>
        /\ ret.raised = None
        /\ ret.value = <<IF args.invert THEN 0 ELSE Cardinality(Eligible),
                         Cardinality(Eligible)>>

C3_Witness ==
    /\ Returned
    /\ Constrained = {}
    /\ args.invert
    /\ ret.value = <<0, 2>>

C3_WitnessNoEligibleRow ==
    /\ Returned
    /\ Constrained = {}
    /\ args.data.rows # <<>>
    /\ ret.value = <<0, 0>>

\* the same call with the invert flag flipped
WithInvertFlipped ==
    compute_observed_prevalence(args.pattern, args.data, args.lnls,
                                args.t_stage, TableModality, args.midline_ext,
                                ~args.invert)

\* C4: flipping invert leaves num_total unchanged and turns num_match into
\* num_total - num_match, whatever the number of constrained levels; with
\* exactly one constrained level the two masks are each other's negation.
C4_InvertedCountIsComplement ==
    Returned =>
        LET flipped == WithInvertFlipped
        IN  /\ flipped.raised = None
            /\ ret.value[2] = flipped.value[2]
            /\ ret.value[1] = ret.value[2] - flipped.value[1]
            /\ (Cardinality(Constrained) = 1) =>
                  /\ IsSeries(ret.do_lnls_match)
                  /\ ret.do_lnls_match.val =
                         [k \in DOMAIN flipped.do_lnls_match.val |->
                             ~flipped.do_lnls_match.val[k]]

C4_Witness ==
    /\ Returned
    /\ args.invert
    /\ Cardinality(Constrained) = 2
    /\ ret.value = <<1, 2>>
    /\ \E k \in DOMAIN ret.eligible_data : \E c \in Constrained :
          CellOf(ret.eligible_data[k], c) = NaN

(***************************************************************************)
(* Inputs of one prediction: a model of one of the three kinds, a          *)
(* scenario, the two empirical priors and a parameter vector.  The priors, *)
(* the likelihoods and the entries of the diagnosis time distributions     *)
(* (two time steps) are multiples of 1/ProbUnit in [0, 1].  The vector     *)
(* gives a likelihood to each patient row the scenario loads (0            *)
(* elsewhere).  A unilateral cohort has no midline prior (None).           *)
(***************************************************************************)
ProbUnit == 2

Probs == { Frac(k, ProbUnit) : k \in 0..ProbUnit }

MidKeys == {True, False, Absent}

PredPattern == [ipsi |-> [II |-> True]]

NewModel(kind, dists) ==
    [kind |-> kind,
     lnls |-> LnlsOf(IF kind = "Unilateral" THEN 2 ELSE 3),
     modalities |-> [config |-> <<One, One>>],
     patient_data |-> <<>>,
     diag_time_dists |-> dists]

DistsOf(kind) ==
    IF kind = "MidlineBilateral" THEN [RowStages -> PmfsOf(2, ProbUnit)] ELSE {None}

\* the (stage, midline) keys of the rows a scenario loads
LoadedKeys(kind, t_stage, midline_ext) ==
    { <<r.t_stage, r.midline_extension>> :
        r \in Range(create_patient_row(PredPattern, t_stage, midline_ext,
                                       kind = "Unilateral")) }

LlhTables(keys) ==
    { [s \in RowStages |-> [m \in MidKeys |->
          IF <<s, m>> \in keys THEN g[<<s, m>>] ELSE Zero]] : g \in [keys -> Probs] }

InitPred ==
    /\ pc = "call"
    /\ RunIdle
    /\ \E kind \in Kinds \cup {OtherKind} :
       \E dists \in DistsOf(kind) :
       \E t_stage \in TStages :
       \E midline_ext \in TriState :
       \E early_prob \in Probs :
       \E midline_ext_prob \in (IF kind = "Unilateral" THEN {None} ELSE Probs) :
       \E rate \in Rates :
       \E llh \in LlhTables(LoadedKeys(kind, t_stage, midline_ext)) :
           args = [model |-> NewModel(kind, dists),
                   pattern |-> PredPattern,
                   t_stage |-> t_stage,
                   midline_ext |-> midline_ext,
                   modality_spsn |-> NoSpsn,
                   given_params |-> [llh |-> llh, rate |-> rate],
                   midline_ext_prob |-> midline_ext_prob,
                   early_prob |-> early_prob]
    /\ ret = None

\* mutation: the levels are read off the model whatever its class
predict_prevalence_any_kind(a_model, pattern, t_stage, midline_ext, modality_spsn, given_params, midline_ext_prob, early_prob) ==
    LET loaded_model ==
            [a_model EXCEPT
                !.modalities = [prev |-> IF modality_spsn = NoSpsn THEN <<One, One>>
                                         ELSE modality_spsn],
                !.patient_data = create_patient_row(
                                     complete_pattern(pattern, a_model.lnls), t_stage,
                                     midline_ext, a_model.kind = "Unilateral")]
    IN  [raised |-> None,
         model |-> loaded_model,
         value |-> compute_predicted_prevalence(loaded_model, given_params,
                       midline_ext, t_stage, midline_ext_prob, early_prob)]

\* the prediction of one sample: the set-up of generate_predicted_prevalences
\* (447-459) and the call of compute_predicted_prevalence (463-470)
predict_prevalence(a_model, pattern, t_stage, midline_ext, modality_spsn, given_params, midline_ext_prob, early_prob) ==
    LET loaded_model == setup_prevalence_model(a_model, pattern, t_stage, midline_ext,
                                               modality_spsn)
    IN  IF get_lnls(a_model).raised # None
        THEN [raised |-> get_lnls(a_model).raised, model |-> a_model]
        ELSE [raised |-> None,
              model |-> loaded_model,
              value |-> compute_predicted_prevalence(loaded_model, given_params,
                            midline_ext, t_stage, midline_ext_prob, early_prob)]

CallPredictedPrevalence ==
    /\ pc = "call"
    /\ ret' = predict_prevalence(args.model, args.pattern, args.t_stage,
                                 args.midline_ext, args.modality_spsn,
                                 args.given_params, args.midline_ext_prob,
                                 args.early_prob)
    /\ pc' = "ret"
    /\ UNCHANGED <<args, runvars>>

NextPred == CallPredictedPrevalence

SpecPred == InitPred /\ [][NextPred]_vars

\* the likelihood the parameter vector gives a row of a stage and midline state
Llh(stage, midline) == args.given_params.llh[stage][midline]

\* midline weights (midline_ext_prob, 1 - midline_ext_prob) for one stage
MidlineWeighted(stage) ==
    FAdd(FMul(args.midline_ext_prob, Llh(stage, True)),
         FMul(FSub(One, args.midline_ext_prob), Llh(stage, False)))

\* C7: for a MidlineBilateral model with midline_ext Unknown the prediction
\* is the likelihood marginalized over the two midline states with weights
\* (midline_ext_prob, 1 - midline_ext_prob); with t_stage "early/late" it is
\* the sum over the four stage x midline combinations with stage weights
\* (early_prob, 1 - early_prob) and those midline weights.
C7_MidlineMarginalizedWithPrior ==
    (pc = "ret" /\ args.model.kind = "MidlineBilateral" /\ args.midline_ext = None) =>
        ret.value = IF args.t_stage = "early/late"
                    THEN FAdd(FMul(args.early_prob, MidlineWeighted("early")),
                              FMul(FSub(One, args.early_prob), MidlineWeighted("late")))
                    ELSE MidlineWeighted(args.t_stage)

\* the same prediction asked for a single stage
SingleStage(stage) ==
    predict_prevalence(args.model, args.pattern, stage, args.midline_ext,
                       args.modality_spsn, args.given_params, args.midline_ext_prob,
                       args.early_prob).value

\* C8: for every kind of model and every midline_ext, the prediction for
\* t_stage "early/late" is early_prob * f(early) + (1 - early_prob) * f(late),
\* f(stage) being the prediction of the same scenario for that stage alone;
\* the two weights sum to 1.
C8_StageMarginalization ==
    (pc = "ret" /\ ret.raised = None /\ args.t_stage = "early/late") =>
        /\ ret.value = FAdd(FMul(args.early_prob, SingleStage("early")),
                            FMul(FSub(One, args.early_prob), SingleStage("late")))
        /\ FAdd(args.early_prob, FSub(One, args.early_prob)) = One

C8_Witness ==
    /\ pc = "ret"
    /\ args.t_stage = "early/late"
    /\ args.model.kind = "MidlineBilateral"
    /\ args.midline_ext = True
    /\ args.early_prob \notin {Zero, One}
    /\ IsFinite(ret.value)
    /\ SingleStage("early") # SingleStage("late")
    /\ SingleStage("late") # Zero

C8_WitnessUnilateral ==
    /\ pc = "ret"
    /\ args.t_stage = "early/late"
    /\ args.model.kind = "Unilateral"
    /\ args.early_prob \notin {Zero, One}
    /\ SingleStage("early") # SingleStage("late")
    /\ ret.value = Frac(3, 4)

Normalizer(stage) ==
    LET pmf == args.model.diag_time_dists[stage]
        p == calculate_midline_ext_prob(pmf, [t \in DOMAIN pmf |-> args.given_params.rate])
    IN  IF args.midline_ext = True THEN p ELSE FSub(One, p)

\* the joint likelihood of a stage over its normalizer
Normalized(stage) == FDiv(Llh(stage, args.midline_ext), Normalizer(stage))

KnownMidlineCall ==
    pc = "ret" /\ args.model.kind = "MidlineBilateral" /\ args.midline_ext # None

\* the value is the normalized likelihood, per stage when the stage is
\* marginalized
C16_ValueIsNormalizedLikelihood ==
    KnownMidlineCall =>
        ret.value = IF args.t_stage = "early/late"
                    THEN FAdd(FMul(args.early_prob, Normalized("early")),
                              FMul(FSub(One, args.early_prob), Normalized("late")))
                    ELSE Normalized(args.t_stage)

\* C16: for a MidlineBilateral model and a known midline_ext the prediction
\* is the joint likelihood over the cumulative midline probability (True) or
\* over one minus it (False), with the early normalizer for the early term
\* and the late one for the late term of "early/late", and it is a
\* well-defined value for every parameter vector, those with a normalizer
\* of 0 included.
C16_NormalizedAndWellDefined ==
    KnownMidlineCall => (C16_ValueIsNormalizedLikelihood /\ IsFinite(ret.value))

(***************************************************************************)
(* The scripts: main of prevalences.py (501-548) and of risks.py           *)
(* (163-195).  A scenario is a record [name, pattern, t_stage,             *)
(* midline_ext, invert, modality_spsn]; for a risk scenario pattern is the *)
(* involvement and modality_spsn the given_diagnosis_spsn.                 *)
(***************************************************************************)

\* data[mask]: the rows of a table selected by a boolean Series
SubTable(data, mask) == [data EXCEPT !.rows = Compress(data.rows, mask.val)]

\* get_midline_ext_prob (150-159); 0/0 raises ZeroDivisionError
get_midline_ext_prob(data, t_stage) ==
    IF data.nlevels = 2 THEN Returns(None)
    ELSE LET eligible_data == SubTable(data, does_t_stage_match(data, t_stage))
             has_matching_midline_ext == does_midline_ext_match(eligible_data, True)
         IN  IF has_matching_midline_ext.kind = "KeyError" THEN Raised("KeyError")
             ELSE IF Len(eligible_data.rows) = 0 THEN Raised("ZeroDivisionError")
             ELSE Returns(Frac(Len(SubTable(eligible_data,
                                            has_matching_midline_ext).rows),
                               Len(eligible_data.rows)))

\* get_early_prob (176-181)
get_early_prob(data) ==
    IF Len(data.rows) = 0 THEN Raised("ZeroDivisionError")
    ELSE Returns(Frac(Len(SubTable(data, does_t_stage_match(data, "early")).rows),
                      Len(data.rows)))

\* mutation: a stride that drops the trailing partial step
ThinWholeStrides(samples, thin) ==
    [j \in 1..(Len(samples) \div thin) |-> samples[(j - 1) * thin + 1]]

\* samples[::args.thin]
Thin(samples, thin) ==
    [j \in 1..((Len(samples) + thin - 1) \div thin) |-> samples[(j - 1) * thin + 1]]

\* mutation: invert is ignored
prevalence_yield_not_inverted(loaded_model, sample, scenario, midline_ext_prob, early_prob) ==
    compute_predicted_prevalence(loaded_model, sample, scenario.midline_ext,
                                 scenario.t_stage, midline_ext_prob, early_prob)

\* the loop body of generate_predicted_prevalences (463-471)
prevalence_yield(loaded_model, sample, scenario, midline_ext_prob, early_prob) ==
    LET prevalence == compute_predicted_prevalence(loaded_model, sample,
                          scenario.midline_ext, scenario.t_stage,
                          midline_ext_prob, early_prob)
    IN  IF scenario.invert THEN FSub(One, prevalence) ELSE prevalence

\* generate_predicted_prevalences (425-471): the values of the whole stream
generate_predicted_prevalences(a_model, samples, scenario, midline_ext_prob, early_prob) ==
    LET loaded_model == setup_prevalence_model(a_model, scenario.pattern,
                            scenario.t_stage, scenario.midline_ext,
                            scenario.modality_spsn)
    IN  [k \in DOMAIN samples |->
            prevalence_yield(loaded_model, samples[k], scenario, midline_ext_prob,
                             early_prob)]

\* lines 102-109 of predicted_risk: the model is set up for the scenario
setup_risk_model(a_model, scenario) ==
    [a_model EXCEPT
        !.modalities = [risk |-> IF scenario.modality_spsn # NoSpsn
                                 THEN scenario.modality_spsn
                                 ELSE <<One, One>>]]

\* mutation: midline_extension is passed to a MidlineBilateral model only
risk_kwargs_midline_only(a_model, scenario) ==
    IF a_model.kind = "MidlineBilateral"
    THEN [t_stage |-> scenario.t_stage, midline_extension |-> scenario.midline_ext]
    ELSE [t_stage |-> scenario.t_stage, midline_extension |-> Absent]

\* the keyword arguments t_stage and midline_extension of the call of
\* model.risk: 115-120 pass no midline_extension, 127-133 pass midline_ext
risk_kwargs(a_model, scenario) ==
    IF a_model.kind = "Unilateral"
    THEN [t_stage |-> scenario.t_stage, midline_extension |-> Absent]
    ELSE [t_stage |-> scenario.t_stage, midline_extension |-> scenario.midline_ext]

\* model.risk(involvement, given_params, given_diagnoses, t_stage[, midline_extension])
\* as called at 115-120 (unilateral) and 127-133 (bilateral, midline)
risk_call(a_model, sample, scenario) ==
    LET kwargs == risk_kwargs(a_model, scenario)
    IN  sample.risk[kwargs.t_stage][kwargs.midline_extension]

\* the loop bodies of predicted_risk (114-121, 126-134)
risk_yield(a_model, sample, scenario) ==
    LET risk == risk_call(a_model, sample, scenario)
    IN  IF scenario.invert THEN FSub(One, risk) ELSE risk

\* predicted_risk (71-137): the values of the whole stream
predicted_risk(a_model, samples, scenario) ==
    LET loaded_model == setup_risk_model(a_model, scenario)
    IN  [k \in DOMAIN samples |-> risk_yield(loaded_model, samples[k], scenario)]

\* prevs_h5dset.attrs[key] = val for the scenario's items (536-540): a value
\* that is no scalar or array (a dict, None) raises TypeError and is skipped
scenario_attrs(scenario) ==
    LET storable == { key \in DOMAIN scenario :
                        /\ key # "pattern"
                        /\ ~(key = "midline_ext" /\ scenario[key] = None)
                        /\ ~(key = "modality_spsn" /\ scenario[key] = NoSpsn) }
    IN  [key \in storable |-> scenario[key]]

(***************************************************************************)
(* Inputs of a run: at most MaxScenarios scenarios, the first N <=         *)
(* MaxSamples of a list of distinct parameter vectors, a stride of at most *)
(* MaxThin, a model of one of the three kinds and, for the prevalences,    *)
(* a table of that kind.                                                   *)
(***************************************************************************)
MaxScenarios == 2

MaxSamples == 3

MaxThin == 2

\* the n-th posterior sample: distinct likelihoods and risks per row kind,
\* and a rate given_params[-2] of 0, 1/2, 2/3, ...
ParamVector(n) ==
    [llh |-> [st \in RowStages |-> [m \in MidKeys |->
                 Frac(1, n + (IF st = "early" THEN 1 ELSE 2)
                           + (IF m = True THEN 0 ELSE IF m = False THEN 1 ELSE 2))]],
     risk |-> [st \in TStages |-> [m \in MidKeys \cup {None} |->
                 Frac(1, 2 * n + (IF st = "early" THEN 1 ELSE 2)
                               + (IF m = True THEN 0 ELSE 1))]],
     rate |-> Frac(n - 1, n)]

\* load_hdf5_samples (503): the chain is held by the row numbers of its
\* samples, ParamVector giving the row
SamplesOf(N) == [n \in 1..N |-> n]

\* the parameter vectors of a list of rows
Rows(samples) == [k \in DOMAIN samples |-> ParamVector(samples[k])]

\* the scenarios of params.yaml: every t_stage with every midline_ext, the
\* single stages as they are and the marginalized ones inverted, a scenario
\* that asks for a modality the table does not hold, and an inverted one
\* with a modality_spsn of its own
ScenarioChoices ==
    { [pattern |-> PredPattern, t_stage |-> t_stage, midline_ext |-> midline_ext,
       invert |-> (t_stage = "early/late"), modality |-> TableModality,
       modality_spsn |-> NoSpsn] :
          t_stage \in {"early", "early/late"}, midline_ext \in {None, True} }
    \cup
    { [pattern |-> PredPattern, t_stage |-> "early/late", midline_ext |-> None,
       invert |-> FALSE, modality |-> "CT", modality_spsn |-> NoSpsn],
      [pattern |-> PredPattern, t_stage |-> "early", midline_ext |-> None,
       invert |-> TRUE, modality |-> TableModality,
       modality_spsn |-> <<Frac(1, 2), One>>] }

\* scenario names are unique: the k-th scenario is named after k
Named(k, choice) ==
    [name |-> k, pattern |-> choice.pattern, t_stage |-> choice.t_stage,
     midline_ext |-> choice.midline_ext, invert |-> choice.invert,
     modality |-> choice.modality, modality_spsn |-> choice.modality_spsn]

ScenarioLists ==
    UNION { { [k \in 1..n |-> Named(k, c[k])] : c \in [1..n -> ScenarioChoices] } :
            n \in 0..MaxScenarios }

MainDists == [early |-> <<Frac(1, 2), Frac(1, 2)>>, late |-> <<Zero, One>>]

\* load_data_for_model with [0,1] or [0,1,2] header rows (505-506): a cohort
\* with an early and a late patient, or one with late patients only
MainTables(kind) ==
    IF kind = "Unilateral"
    THEN { [nlevels |-> 2, has_midline |-> FALSE, rows |-> r] : r \in
            { <<[t_stage |-> "early", diag |-> [II |-> True, III |-> False]],
                [t_stage |-> "late", diag |-> [II |-> False, III |-> NaN]]>>,
              <<>> } }
    ELSE { [nlevels |-> 3, has_midline |-> TRUE, rows |-> r] : r \in
            { <<[t_stage |-> "early", midline_extension |-> True,
                 diag |-> [ipsi |-> [II |-> True], contra |-> [II |-> False]]],
                [t_stage |-> "late", midline_extension |-> False,
                 diag |-> [ipsi |-> [II |-> False], contra |-> [II |-> NaN]]]>>,
              <<[t_stage |-> "late", midline_extension |-> True,
                 diag |-> [ipsi |-> [II |-> True], contra |-> [II |-> True]]]>> } }

IdleGen == [started |-> FALSE, k |-> 0, samples |-> <<>>,
            midline_ext_prob |-> None, early_prob |-> None, call |-> None]

Init ==
    /\ pc = "scenario"
    /\ \E script \in {"prevalences", "risks"} :
       \E kind \in Kinds :
       \E data \in (IF script = "prevalences" THEN MainTables(kind) ELSE {None}) :
       \E scenarios \in ScenarioLists :
       \E N \in 0..MaxSamples :
       \E thin \in 1..MaxThin :
           /\ args = [script |-> script, scenarios |-> scenarios,
                      samples |-> SamplesOf(N), thin |-> thin, data |-> data]
           /\ model = NewModel(kind, IF kind = "MidlineBilateral" THEN MainDists
                                     ELSE None)
    /\ ret = None
    /\ i = 0
    /\ gen = IdleGen
    /\ prevs_arr = <<>>
    /\ locals = None
    /\ storage = <<>>

scenario == args.scenarios[i + 1]

\* prevalences 511-518: the priors are computed and the generator is created;
\* its body does not run before the first value is asked for
CreatePrevalenceGenerator ==
    /\ pc = "scenario"
    /\ args.script = "prevalences"
    /\ i < Len(args.scenarios)
    /\ LET midline_ext_prob == get_midline_ext_prob(args.data, scenario.t_stage)
           early_prob == get_early_prob(args.data)
       IN  IF midline_ext_prob.raised # None \/ early_prob.raised # None
           THEN /\ pc' = "failed"
                /\ UNCHANGED gen
           ELSE /\ pc' = "collect"
                /\ gen' = [started |-> FALSE, k |-> 0,
                           samples |-> Thin(args.samples, args.thin),
                           midline_ext_prob |-> midline_ext_prob.value,
                           early_prob |-> early_prob.value,
                           call |-> None]
    /\ prevs_arr' = <<>>
    /\ UNCHANGED <<args, ret, model, i, locals, storage>>

\* risks 170-175
CreateRiskGenerator ==
    /\ pc = "scenario"
    /\ args.script = "risks"
    /\ i < Len(args.scenarios)
    /\ pc' = "collect"
    /\ gen' = [started |-> FALSE, k |-> 0, samples |-> Thin(args.samples, args.thin),
               midline_ext_prob |-> None, early_prob |-> None, call |-> None]
    /\ prevs_arr' = <<>>
    /\ UNCHANGED <<args, ret, model, i, locals, storage>>

\* the model as the generator sees it when it is resumed: the first resume
\* runs the set-up (prevalences 447-459, risks 102-109)
ResumedModel ==
    IF gen.started THEN model
    ELSE IF args.script = "prevalences"
    THEN setup_prevalence_model(model, scenario.pattern, scenario.t_stage,
                                scenario.midline_ext, scenario.modality_spsn)
    ELSE setup_risk_model(model, scenario)

\* one turn of list(p for p in prevs_progress) (526, risks 183): the
\* generator runs to its next yield
YieldValue ==
    /\ pc = "collect"
    /\ gen.k < Len(gen.samples)
    /\ model' = ResumedModel
    /\ LET sample == ParamVector(gen.samples[gen.k + 1])
           value == IF args.script = "prevalences"
                    THEN prevalence_yield(ResumedModel, sample, scenario,
                                          gen.midline_ext_prob, gen.early_prob)
                    ELSE risk_yield(ResumedModel, sample, scenario)
       IN  prevs_arr' = Append(prevs_arr, value)
    /\ gen' = [gen EXCEPT !.started = TRUE, !.k = gen.k + 1,
                           !.call = IF args.script = "risks"
                                    THEN risk_kwargs(ResumedModel, scenario)
                                    ELSE None]
    /\ UNCHANGED <<pc, args, ret, i, locals, storage>>

\* the generator runs off its end: np.array(list(...)) is complete
GeneratorReturn ==
    /\ pc = "collect"
    /\ gen.k = Len(gen.samples)
    /\ model' = ResumedModel
    /\ gen' = [gen EXCEPT !.started = TRUE]
    /\ pc' = "store"
    /\ UNCHANGED <<args, ret, i, prevs_arr, locals, storage>>

\* mutation: the output file is opened anew, mode "w", for every scenario
CreateDatasetInFreshFile ==
    /\ pc = "store"
    /\ storage' = [name \in {scenario.name} |-> [data |-> prevs_arr, attrs |-> <<>>]]
    /\ locals' = [prevs_h5dset |-> scenario.name]
    /\ pc' = IF args.script = "prevalences" THEN "observe" ELSE "attrs"
    /\ UNCHANGED <<args, ret, model, i, gen, prevs_arr>>

\* create_dataset(name=scenario["name"], data=prevs_arr) (527-530, risks 184-187)
CreateDataset ==
    /\ pc = "store"
    /\ IF scenario.name \in DOMAIN storage
       THEN /\ pc' = "failed"
            /\ UNCHANGED <<storage, locals>>
       ELSE /\ storage' = [name \in DOMAIN storage \cup {scenario.name} |->
                              IF name = scenario.name
                              THEN [data |-> prevs_arr, attrs |-> <<>>]
                              ELSE storage[name]]
            /\ locals' = [prevs_h5dset |-> scenario.name]
            /\ pc' = IF args.script = "prevalences" THEN "observe" ELSE "attrs"
    /\ UNCHANGED <<args, ret, model, i, gen, prevs_arr>>

\* prevalences 531-535
ComputeObserved ==
    /\ pc = "observe"
    /\ LET observed == compute_observed_prevalence(scenario.pattern, args.data,
                            get_lnls(model).value, scenario.t_stage, scenario.modality,
                            scenario.midline_ext, scenario.invert)
       IN  IF observed.raised # None
           THEN /\ pc' = "failed"
                /\ UNCHANGED locals
           ELSE /\ pc' = "attrs"
                /\ locals' = [prevs_h5dset |-> locals.prevs_h5dset,
                              num_match |-> observed.value[1],
                              num_total |-> observed.value[2]]
    /\ UNCHANGED <<args, ret, model, i, gen, prevs_arr, storage>>

\* prevalences 536-543, risks 188-192; the loop goes on to the next scenario
AttachAttrs ==
    /\ pc = "attrs"
    /\ LET echoed == scenario_attrs(scenario)
           counts == IF args.script = "prevalences"
                     THEN [num_match |-> locals.num_match,
                           num_total |-> locals.num_total]
                     ELSE <<>>
       IN  storage' = [storage EXCEPT ![locals.prevs_h5dset].attrs = echoed @@ counts]
    /\ i' = i + 1
    /\ pc' = "scenario"
    /\ UNCHANGED <<args, ret, model, gen, prevs_arr, locals>>

\* the loop is over and the file is closed (545-548, risks 193-195)
Finish ==
    /\ pc = "scenario"
    /\ i = Len(args.scenarios)
    /\ pc' = "done"
    /\ UNCHANGED <<args, ret, model, i, gen, prevs_arr, locals, storage>>

Next ==
    \/ CreatePrevalenceGenerator
    \/ CreateRiskGenerator
    \/ YieldValue
    \/ GeneratorReturn
    \/ CreateDataset
    \/ ComputeObserved
    \/ AttachAttrs
    \/ Finish

Spec == Init /\ [][Next]_vars

(***************************************************************************)
(* What the claims say of a run.                                           *)
(***************************************************************************)

\* the generator of the scenario at hand has just been consumed
StreamConsumed == pc = "store"

\* between two scenarios, or at the end of the run
AtRest == pc \in {"scenario", "done", "failed"}

\* the stream of the same model, samples and scenario with invert flipped
StreamWithInvertFlipped ==
    LET flipped == [scenario EXCEPT !.invert = ~scenario.invert]
    IN  IF args.script = "prevalences"
        THEN generate_predicted_prevalences(model, Rows(gen.samples), flipped,
                                            gen.midline_ext_prob, gen.early_prob)
        ELSE predicted_risk(model, Rows(gen.samples), flipped)

\* C9: for the same model, samples and scenario, every value of the stream
\* produced with invert=True is 1 minus the value at the same position of
\* the stream produced with invert=False, for generate_predicted_prevalences
\* and for predicted_risk.
C9_InvertedStreamIsComplement ==
    StreamConsumed =>
        LET other == StreamWithInvertFlipped
        IN  /\ Len(other) = Len(prevs_arr)
            /\ \A k \in DOMAIN prevs_arr :
                  IF scenario.invert
                  THEN prevs_arr[k] = FSub(One, other[k])
                  ELSE other[k] = FSub(One, prevs_arr[k])

C9_Witness ==
    /\ pc = "store"
    /\ args.script = "prevalences"
    /\ model.kind = "MidlineBilateral"
    /\ scenario.invert
    /\ Len(prevs_arr) >= 2
    /\ \A k \in DOMAIN prevs_arr : IsFinite(prevs_arr[k])
    /\ prevs_arr[1] # prevs_arr[2]

C9_WitnessRisk ==
    /\ pc = "store"
    /\ args.script = "risks"
    /\ scenario.invert
    /\ Len(prevs_arr) >= 2
    /\ prevs_arr[1] # prevs_arr[2]

\* C12: the risk call receives the scenario's midline_ext only when the
\* model is MidlineBilateral; for Unilateral and Bilateral models it receives
\* no midline-extension argument.
C12_MidlineExtOnlyToMidlineBilateral ==
    (args.script = "risks" /\ pc = "collect" /\ gen.k > 0) =>
        gen.call.midline_extension =
            IF model.kind = "MidlineBilateral" THEN scenario.midline_ext ELSE Absent

\* C12 as the code has it: the risk call receives the scenario's midline_ext
\* for both bilateral kinds, Bilateral and MidlineBilateral; only the call
\* of a Unilateral model receives no midline-extension argument.
C12_MidlineExtToBothBilateralKinds ==
    (args.script = "risks" /\ pc = "collect" /\ gen.k > 0) =>
        gen.call.midline_extension =
            IF model.kind = "Unilateral" THEN Absent ELSE scenario.midline_ext

C12_Witness ==
    /\ args.script = "risks"
    /\ pc = "collect"
    /\ gen.k > 0
    /\ model.kind = "Bilateral"
    /\ scenario.midline_ext = True
    /\ gen.call.midline_extension = True

C12_WitnessUnilateral ==
    /\ args.script = "risks"
    /\ pc = "collect"
    /\ gen.k > 0
    /\ model.kind = "Unilateral"
    /\ scenario.midline_ext = True
    /\ gen.call.midline_extension = Absent

\* ceil(N / s): the least n with n * s >= N
CeilDiv(N, s) == CHOOSE n \in 0..N : n * s >= N /\ (n = 0 \/ (n - 1) * s < N)

\* the prediction of a scenario for one posterior sample
PredictionFor(scen, sample) ==
    IF args.script = "prevalences"
    THEN prevalence_yield(
             setup_prevalence_model(model, scen.pattern, scen.t_stage,
                                    scen.midline_ext, scen.modality_spsn),
             sample, scen,
             get_midline_ext_prob(args.data, scen.t_stage).value,
             get_early_prob(args.data).value)
    ELSE risk_yield(setup_risk_model(model, scen), sample, scen)

\* the predictions of a scenario for a list of rows of the chain
PredictionsFor(scen, rows) ==
    IF args.script = "prevalences"
    THEN generate_predicted_prevalences(model, Rows(rows), scen,
             get_midline_ext_prob(args.data, scen.t_stage).value,
             get_early_prob(args.data).value)
    ELSE predicted_risk(model, Rows(rows), scen)

\* array holds ceil(N/s) entries, entry k being the prediction for the
\* original sample k * s (counted from 0)
IsThinnedStream(array, scen) ==
    /\ Len(array) = CeilDiv(Len(args.samples), args.thin)
    /\ array = PredictionsFor(scen, [k \in 1..Len(array) |->
                                       args.samples[(k - 1) * args.thin + 1]])

\* C10: for N samples and stride s >= 1 the array of every scenario has
\* exactly ceil(N/s) entries, entry k being the prediction for the original
\* sample of index k*s, in order; the runner yields one value per thinned
\* sample.
C10_ThinnedInOrder ==
    /\ StreamConsumed => IsThinnedStream(prevs_arr, scenario)
    /\ AtRest => \A name \in DOMAIN storage :
                    IsThinnedStream(storage[name].data, args.scenarios[name])
    /\ pc = "collect" =>
          /\ Len(prevs_arr) = gen.k
          /\ gen.k <= CeilDiv(Len(args.samples), args.thin)

C10_Witness ==
    /\ pc = "done"
    /\ Len(args.samples) = 3
    /\ args.thin = 2
    /\ Len(args.scenarios) = 2
    /\ \A name \in DOMAIN args.scenarios :
          /\ name \in DOMAIN storage
          /\ Len(storage[name].data) = 2
          /\ storage[name].data[2] =
                PredictionFor(args.scenarios[name], ParamVector(args.samples[3]))
          /\ storage[name].data[2] #
                PredictionFor(args.scenarios[name], ParamVector(args.samples[2]))

\* the record a scenario leaves in the output once it is through: its
\* thinned predictions, its storable items and, for a prevalence, the counts
ObservedCounts(scen) ==
    compute_observed_prevalence(scen.pattern, args.data, get_lnls(model).value,
                                scen.t_stage, scen.modality, scen.midline_ext,
                                scen.invert).value

FullRecord(scen) ==
    [data |-> PredictionsFor(scen, [k \in 1..CeilDiv(Len(args.samples), args.thin) |->
                                       args.samples[(k - 1) * args.thin + 1]]),
     attrs |-> IF args.script = "prevalences"
               THEN scenario_attrs(scen) @@ [num_match |-> ObservedCounts(scen)[1],
                                             num_total |-> ObservedCounts(scen)[2]]
               ELSE scenario_attrs(scen)]

\* C13: when the evaluation of scenario k fails, the records of the
\* scenarios before it are in the output, complete and as they were written.
C13_EarlierRecordsSurviveFailure ==
    pc = "failed" =>
        \A j \in 1..i : /\ j \in DOMAIN storage
                        /\ storage[j] = FullRecord(args.scenarios[j])

\* a failure of the second scenario before its stream is created
C13_Witness ==
    /\ pc = "failed"
    /\ i = 1
    /\ 2 \notin DOMAIN storage
    /\ Len(storage[1].data) = 2

\* a failure of the second scenario in the observed count
C13_WitnessObserved ==
    /\ pc = "failed"
    /\ i = 1
    /\ 2 \in DOMAIN storage
    /\ Len(storage[1].data) = 2

\* C14: in every state of a prevalence run each dataset in the output
\* carries its num_match and num_total, so that a scenario that is abandoned
\* or fails at any step leaves no partial record.
C14_StoredDatasetsCarryCounts ==
    args.script = "prevalences" =>
        \A name \in DOMAIN storage :
            {"num_match", "num_total"} \subseteq DOMAIN storage[name].attrs

\* what a scenario asks of the shared model: the sensitivity and specificity
\* of its modality, 1 and 1 when it gives none, and its synthetic rows
SpsnOf(scen) == IF scen.modality_spsn = NoSpsn THEN <<One, One>> ELSE scen.modality_spsn

RowsOfScenario(scen) ==
    create_patient_row(complete_pattern(scen.pattern, model.lnls), scen.t_stage,
                       scen.midline_ext, model.kind = "Unilateral")

ConfiguredFor(scen) ==
    IF args.script = "prevalences"
    THEN /\ model.modalities = [prev |-> SpsnOf(scen)]
         /\ model.patient_data = RowsOfScenario(scen)
    ELSE model.modalities = [risk |-> SpsnOf(scen)]

\* the generator of the scenario at hand has evaluated its set-up
SamplesUnderWay == pc = "collect" /\ gen.started

\* C15: while the samples of scenario k are evaluated the shared model's
\* synthetic rows and modality sensitivity/specificity are those of scenario
\* k, and the set-up is made once per scenario, before its first sample:
\* the evaluation of a further sample leaves the model as it is.
C15_ModelConfiguredPerScenario ==
    /\ [](SamplesUnderWay => ConfiguredFor(scenario))
    /\ [][SamplesUnderWay => model' = model]_vars
    /\ [][(pc = "collect" /\ ~gen.started) =>
             (gen'.started /\ pc' \in {"collect", "store"} /\ ConfiguredFor(scenario)')]_vars

\* the second scenario is under way with the default 1/1 after a first
\* scenario with a modality_spsn of its own and other rows
C15_Witness ==
    /\ SamplesUnderWay
    /\ args.script = "prevalences"
    /\ i = 1
    /\ gen.k = 2
    /\ args.scenarios[1].modality_spsn # NoSpsn
    /\ args.scenarios[2].modality_spsn = NoSpsn
    /\ model.modalities = [prev |-> <<One, One>>]
    /\ RowsOfScenario(args.scenarios[1]) # model.patient_data

=============================================================================
